---- MODULE Spec2Model ----
(***************************************************************************)
(* CollabSpace AI service: the access-control layer (app/core/security.py)  *)
(* and the completion orchestrator (app/services/ai_code_completion.py).    *)
(*                                                                          *)
(* Strings are sequences of pieces (one-character strings, plus a few       *)
(* atomic pieces such as a hex digest that contain no separator).           *)
(* Wall-clock time is the integer variable now, in seconds.                 *)
(***************************************************************************)
EXTENDS Integers, Sequences, FiniteSets, TLC

VARIABLES
    now,          \* time.time() / datetime.utcnow(), whole seconds
    requests,     \* RateLimiter.requests: key -> list of admitted timestamps
    limitOf,      \* limit bound by @rate_limit to each decorated function
    windowOf,     \* window bound by @rate_limit to each decorated function
    calls,        \* history: per (client, function), its rate-limited calls in
                  \* order, each with its time and outcome
    api_key,      \* the API key string a caller holds (None before the first issue)
    keyOrigin,    \* history: how api_key came about (identity, issue time, tampering)
    keyResult,    \* the outcome of verify_api_key for api_key, once it was called
    keySeen,      \* history: <<reason, outcome the caller saw>> of every rejection
    token,        \* the access token a caller holds (None before the first issue)
    tokOrigin,    \* history: how token came about (data, issue time, lifetime, forgery)
    tokResult,    \* the outcome of verify_token for token, once it was called
    tokSeen,      \* history: <<reason, outcome the caller saw>> of every rejection
    openai_client,  \* AICodeCompletionService.openai_client is set
    custom_models,  \* the languages of AICodeCompletionService.custom_models
    cache,        \* AICodeCompletionService.cache: cache key -> response
    pc,           \* per task: "idle", "awaiting_openai", "done", "cancelled", and
                  \* for a /complete request "rejected" (429), "failed" (500)
    request,      \* per task: the request of its call
    start_time,   \* per task: start_time of its call
    result,       \* per task: the response its call returned
    prior,        \* history, per task: the response of the call of the same
                  \* request that returned right before this one began
    lastReturn,   \* history: the task whose call returned in the latest
                  \* operation, None when that operation left a call suspended
    chainRuns,    \* history: per cache key, the provider-chain runs begun for it
    expired,      \* history: the cache keys whose entry was stored more than
                  \* CACHE_TTL ago
    inserted,     \* history: the cache keys in the order of their first store
    fnIn,         \* the arguments a function under study is applied to
    fnOut,        \* its value, once it was applied
    instance,     \* per /complete request task: the cache of the service
                  \* instance created for the request
    workers       \* per worker thread inside is_allowed: its position and locals

rlVars == <<requests, limitOf, windowOf, calls, workers>>
keyVars == <<api_key, keyOrigin, keyResult, keySeen>>
tokVars == <<token, tokOrigin, tokResult, tokSeen>>
svcVars == <<openai_client, custom_models, cache, pc, request, start_time, result,
             prior, lastReturn, chainRuns, expired, inserted, instance>>
fnVars == <<fnIn, fnOut>>
vars == <<now, rlVars, keyVars, tokVars, svcVars, fnVars>>

\* Optional values: None, or Some(x) holding x
None == <<>>
Some(x) == <<x>>
Get(opt) == opt[1]

EmptyMap == [x \in {} |-> 0]

\* dict[key] = value
PutDropped(f, k, v) == f

Put(f, k, v) == [x \in DOMAIN f \cup {k} |-> IF x = k THEN v ELSE f[x]]

(***************************************************************************)
(* Bounds of the model                                                      *)
(***************************************************************************)
MaxTime == 2        \* the rate limiter's clock runs 0..MaxTime
MaxCalls == 4       \* rate-limited calls per behaviour
MaxLimit == 2       \* decorator limits are 1..MaxLimit
MaxWindow == 2      \* decorator windows are 1..MaxWindow seconds

Clients == {"10.0.0.1", "10.0.0.2"}
Operations == {"complete_code", "review_code"}

(***************************************************************************)
(* RateLimiter (security.py 167-188) and the rate_limit decorator (195-212) *)
(***************************************************************************)

\* key = f"{client_ip}:{func.__name__}"; a function name holds no ':', so the
\* last ':' separates the two and the string determines the pair
RateKeyDropsOperation(client_ip, fname) == <<client_ip>>

RateKey(client_ip, fname) == <<client_ip, fname>>

\* self.requests[key], after "if key not in self.requests: self.requests[key] = []"
WindowOfKey(reqs, key) == IF key \in DOMAIN reqs THEN reqs[key] ELSE <<>>

\* [req_time for req_time in self.requests[key] if now - req_time < window]
Prune(times, t, window) == SelectSeq(times, LAMBDA req_time : t - req_time < window)

IsAllowedOffByOne(reqs, key, limit, window, t) ==
    LET kept == Prune(WindowOfKey(reqs, key), t, window) IN
    IF Len(kept) > limit
    THEN [ok |-> FALSE, requests |-> Put(reqs, key, kept)]
    ELSE [ok |-> TRUE, requests |-> Put(reqs, key, Append(kept, t))]

IsAllowedRecordsRejected(reqs, key, limit, window, t) ==
    LET kept == Prune(WindowOfKey(reqs, key), t, window) IN
    IF Len(kept) >= limit
    THEN [ok |-> FALSE, requests |-> Put(reqs, key, Append(kept, t))]
    ELSE [ok |-> TRUE, requests |-> Put(reqs, key, Append(kept, t))]

\* RateLimiter.is_allowed(key, limit, window) called at time t: the value it
\* returns and the requests map it leaves
IsAllowed(reqs, key, limit, window, t) ==
    LET kept == Prune(WindowOfKey(reqs, key), t, window) IN
    IF Len(kept) >= limit
    THEN [ok |-> FALSE, requests |-> Put(reqs, key, kept)]
    ELSE [ok |-> TRUE, requests |-> Put(reqs, key, Append(kept, t))]

\* the threads that run is_allowed in parallel
Workers == {"w1", "w2"}

\* a worker outside is_allowed
IdleWorker == [pc |-> "idle", now |-> 0, kept |-> <<>>]

\* the number of rate-limited calls made so far
NumCalls == Cardinality(UNION {{p} \X (1..Len(calls[p])) : p \in DOMAIN calls})

RateLimitInit ==
    /\ requests = EmptyMap
    /\ limitOf \in [Operations -> 1..MaxLimit]
    \* one window for all decorated functions, as with the decorator's default
    \* (window: int = 60); the limit differs per function
    /\ windowOf \in {[f \in Operations |-> w] : w \in 1..MaxWindow}
    /\ calls = [p \in Clients \X Operations |-> <<>>]
    /\ workers = [w \in Workers |-> IdleWorker]

\* the wrapper of rate_limit(limit, window): one request of client_ip to the
\* decorated function fname; 429 when is_allowed returns False
RateLimitedCall(client_ip, fname) ==
    /\ NumCalls < MaxCalls
    /\ LET key == RateKey(client_ip, fname)
           out == IsAllowed(requests, key, limitOf[fname], windowOf[fname], now)
       IN /\ requests' = out.requests
          /\ calls' = [calls EXCEPT ![<<client_ip, fname>>] =
                           Append(@, [at |-> now, ok |-> out.ok])]
    /\ UNCHANGED <<now, limitOf, windowOf, workers, keyVars, tokVars, svcVars, fnVars>>

Tick ==
    /\ now < MaxTime
    /\ now' = now + 1
    /\ UNCHANGED <<rlVars, keyVars, tokVars, svcVars, fnVars>>

RateLimitNext ==
    \/ \E c \in Clients, f \in Operations : RateLimitedCall(c, f)
    \/ Tick

(***************************************************************************)
(* RateLimiter.is_allowed run by parallel worker threads (security.py       *)
(* 173-188): the class holds no lock, so the statements of one call          *)
(* interleave with those of another                                          *)
(***************************************************************************)
\* the workers serve requests of one client to one decorated function
ParallelPair == <<"10.0.0.1", "complete_code">>

ParallelKey == RateKey(ParallelPair[1], ParallelPair[2])

\* the number of workers inside is_allowed
NumActive == Cardinality({w \in Workers : workers[w].pc # "idle"})

ParallelInit ==
    /\ requests = EmptyMap
    /\ limitOf \in {[f \in Operations |-> l] : l \in 1..MaxLimit}
    /\ windowOf \in {[f \in Operations |-> w] : w \in 1..MaxWindow}
    /\ calls = [p \in Clients \X Operations |-> <<>>]
    /\ workers = [w \in Workers |-> IdleWorker]

\* "now = time.time()" and the test "if key not in self.requests"
ThrBegin(w) ==
    /\ workers[w].pc = "idle"
    /\ NumCalls + NumActive < MaxCalls
    /\ workers' = [workers EXCEPT ![w] =
                       [pc |-> IF ParallelKey \in DOMAIN requests THEN "prune" ELSE "init",
                        now |-> now, kept |-> <<>>]]
    /\ UNCHANGED <<now, requests, limitOf, windowOf, calls, keyVars, tokVars, svcVars,
                   fnVars>>

\* "self.requests[key] = []"
ThrInit(w) ==
    /\ workers[w].pc = "init"
    /\ requests' = Put(requests, ParallelKey, <<>>)
    /\ workers' = [workers EXCEPT ![w].pc = "prune"]
    /\ UNCHANGED <<now, limitOf, windowOf, calls, keyVars, tokVars, svcVars, fnVars>>

\* the list comprehension of line 180 reads self.requests[key] and builds
\* the list of the timestamps it keeps
ThrPruneRead(w) ==
    /\ workers[w].pc = "prune"
    /\ workers' = [workers EXCEPT
                       ![w].kept = Prune(WindowOfKey(requests, ParallelKey),
                                         workers[w].now, windowOf[ParallelPair[2]]),
                       ![w].pc = "store"]
    /\ UNCHANGED <<now, requests, limitOf, windowOf, calls, keyVars, tokVars, svcVars,
                   fnVars>>

\* the assignment of line 180 stores that list
ThrPruneWrite(w) ==
    /\ workers[w].pc = "store"
    /\ requests' = Put(requests, ParallelKey, workers[w].kept)
    /\ workers' = [workers EXCEPT ![w].pc = "check"]
    /\ UNCHANGED <<now, limitOf, windowOf, calls, keyVars, tokVars, svcVars, fnVars>>

\* "if len(self.requests[key]) >= limit: return False"
ThrCheck(w) ==
    /\ workers[w].pc = "check"
    /\ IF Len(WindowOfKey(requests, ParallelKey)) >= limitOf[ParallelPair[2]]
       THEN /\ calls' = [calls EXCEPT ![ParallelPair] =
                             Append(@, [at |-> workers[w].now, ok |-> FALSE])]
            /\ workers' = [workers EXCEPT ![w] = IdleWorker]
       ELSE /\ workers' = [workers EXCEPT ![w].pc = "append"]
            /\ UNCHANGED calls
    /\ UNCHANGED <<now, requests, limitOf, windowOf, keyVars, tokVars, svcVars, fnVars>>

\* "self.requests[key].append(now); return True"
ThrAppend(w) ==
    /\ workers[w].pc = "append"
    /\ requests' = Put(requests, ParallelKey,
                       Append(WindowOfKey(requests, ParallelKey), workers[w].now))
    /\ calls' = [calls EXCEPT ![ParallelPair] =
                     Append(@, [at |-> workers[w].now, ok |-> TRUE])]
    /\ workers' = [workers EXCEPT ![w] = IdleWorker]
    /\ UNCHANGED <<now, limitOf, windowOf, keyVars, tokVars, svcVars, fnVars>>

ParallelNext ==
    \/ \E w \in Workers : ThrBegin(w)
    \/ \E w \in Workers : ThrInit(w)
    \/ \E w \in Workers : ThrPruneRead(w)
    \/ \E w \in Workers : ThrPruneWrite(w)
    \/ \E w \in Workers : ThrCheck(w)
    \/ \E w \in Workers : ThrAppend(w)
    \/ Tick

(***************************************************************************)
(* Strings: str(int), int(str), str.split                                   *)
(***************************************************************************)
Digit == <<"0", "1", "2", "3", "4", "5", "6", "7", "8", "9">>

DigitPieces == {Digit[i] : i \in 1..10}

\* str(n) for an int n >= 0
RECURSIVE Str(_)
Str(n) == IF n < 10 THEN <<Digit[n + 1]>> ELSE Str(n \div 10) \o <<Digit[(n % 10) + 1]>>

DigitValue(d) == (CHOOSE i \in 1..10 : Digit[i] = d) - 1

\* int(s) succeeds: over the pieces of this model (no sign, blank or '_'),
\* a non-empty string of decimal digits
IsInt(s) == Len(s) > 0 /\ \A i \in 1..Len(s) : s[i] \in DigitPieces

\* int(s), for IsInt(s)
RECURSIVE ParseInt(_)
ParseInt(s) ==
    IF Len(s) = 1 THEN DigitValue(s[1])
    ELSE 10 * ParseInt(SubSeq(s, 1, Len(s) - 1)) + DigitValue(s[Len(s)])

\* s.split(sep)
RECURSIVE Split(_, _)
Split(s, sep) ==
    IF \A i \in 1..Len(s) : s[i] # sep THEN <<s>>
    ELSE LET i == CHOOSE k \in 1..Len(s) :
                      s[k] = sep /\ \A j \in 1..(k - 1) : s[j] # sep
         IN <<SubSeq(s, 1, i - 1)>> \o Split(SubSeq(s, i + 1, Len(s)), sep)

(***************************************************************************)
(* SecurityManager: API keys (security.py 71-110)                           *)
(***************************************************************************)
SECRET_KEY == "service-secret"      \* settings.SECRET_KEY
ForeignSecret == "another-secret"   \* any other signing secret

API_KEY_LIFETIME == 86400           \* "Check if key is expired (24 hours)"

MaxIdLen == 2        \* identities are strings of at most MaxIdLen pieces
MaxKeyTicks == 3     \* clock advances per behaviour of the API-key model

IdPieces == {"a", ".", ":"}

RECURSIVE StringsUpTo(_, _)
StringsUpTo(A, n) ==
    IF n = 0 THEN {<<>>}
    ELSE LET shorter == StringsUpTo(A, n - 1)
         IN shorter \cup {Append(s, a) : s \in shorter, a \in A}

UserIds == StringsUpTo(IdPieces, MaxIdLen)

\* hmac.new(secret.encode(), message.encode(), hashlib.sha256).hexdigest():
\* one piece (a hex string, so without '.' and ':'), different for different
\* (secret, message)
Hmac(secret, message) == ToString(<<secret, message>>)

\* generate_api_key(user_id) at time t
GenerateApiKey(user_id, t) ==
    LET timestamp == Str(t)
        message == user_id \o <<":">> \o timestamp
        signature == Hmac(SECRET_KEY, message)
    IN user_id \o <<".">> \o timestamp \o <<".">> \o <<signature>>

KeyRejectedLeaksReason(error) ==
    [ok |-> FALSE, user_id |-> <<>>, timestamp |-> <<>>,
     status_code |-> 401, detail |-> error, logged |-> error]

\* the HTTPException every failure of verify_api_key is turned into (105-110)
KeyRejected(error) ==
    [ok |-> FALSE, user_id |-> <<>>, timestamp |-> <<>>,
     status_code |-> 401, detail |-> "Invalid API key", logged |-> error]

VerifyApiKeyIgnoresSignature(key, t) ==
    LET parts == Split(key, ".") IN
    IF Len(parts) # 3 THEN KeyRejected("Invalid API key format")
    ELSE LET user_id == parts[1]
             timestamp == parts[2]
         IN IF ~IsInt(timestamp) THEN KeyRejected("invalid literal for int()")
            ELSE IF t - ParseInt(timestamp) > API_KEY_LIFETIME
                 THEN KeyRejected("API key expired")
            ELSE [ok |-> TRUE, user_id |-> user_id, timestamp |-> timestamp,
                  status_code |-> 200, detail |-> "", logged |-> ""]

\* verify_api_key(api_key) at time t: the dict it returns, or the
\* HTTPException it raises (with the error it logs)
VerifyApiKey(key, t) ==
    LET parts == Split(key, ".") IN
    IF Len(parts) # 3 THEN KeyRejected("Invalid API key format")
    ELSE LET user_id == parts[1]
             timestamp == parts[2]
             signature == parts[3]
             message == user_id \o <<":">> \o timestamp
             expected_signature == Hmac(SECRET_KEY, message)
         IN IF signature # <<expected_signature>> THEN KeyRejected("Invalid signature")
            ELSE IF ~IsInt(timestamp) THEN KeyRejected("invalid literal for int()")
            ELSE IF t - ParseInt(timestamp) > API_KEY_LIFETIME
                 THEN KeyRejected("API key expired")
            ELSE [ok |-> TRUE, user_id |-> user_id, timestamp |-> timestamp,
                  status_code |-> 200, detail |-> "", logged |-> ""]

ApiKeyIdle ==
    /\ api_key = None
    /\ keyOrigin = None
    /\ keyResult = None
    /\ keySeen = {}

\* a caller is issued a key for user_id
IssueApiKey(user_id) ==
    /\ api_key' = Some(GenerateApiKey(user_id, now))
    /\ keyOrigin' = Some([user_id |-> user_id, at |-> now, tamper |-> "none"])
    /\ keyResult' = None
    /\ UNCHANGED <<now, keySeen, rlVars, tokVars, svcVars, fnVars>>

\* the key reaches the service without its signature part
TruncateKey ==
    /\ keyOrigin # None /\ Get(keyOrigin).tamper = "none"
    /\ LET o == Get(keyOrigin) IN
       /\ api_key' = Some(o.user_id \o <<".">> \o Str(o.at))
       /\ keyOrigin' = Some([o EXCEPT !.tamper = "truncated"])
    /\ keyResult' = None
    /\ UNCHANGED <<now, keySeen, rlVars, tokVars, svcVars, fnVars>>

\* somebody without the service secret signs the same identity and timestamp
ResignKey ==
    /\ keyOrigin # None /\ Get(keyOrigin).tamper = "none"
    /\ LET o == Get(keyOrigin) IN
       /\ api_key' = Some(o.user_id \o <<".">> \o Str(o.at) \o <<".">>
                          \o <<Hmac(ForeignSecret, o.user_id \o <<":">> \o Str(o.at))>>)
       /\ keyOrigin' = Some([o EXCEPT !.tamper = "resigned"])
    /\ keyResult' = None
    /\ UNCHANGED <<now, keySeen, rlVars, tokVars, svcVars, fnVars>>

\* the holder of an old key replaces its timestamp by the current time and
\* keeps the signature
RedateKey ==
    /\ keyOrigin # None /\ Get(keyOrigin).tamper = "none" /\ Get(keyOrigin).at # now
    /\ LET o == Get(keyOrigin) IN
       /\ api_key' = Some(o.user_id \o <<".">> \o Str(now) \o <<".">>
                          \o <<Hmac(SECRET_KEY, o.user_id \o <<":">> \o Str(o.at))>>)
       /\ keyOrigin' = Some([o EXCEPT !.tamper = "redated"])
    /\ keyResult' = None
    /\ UNCHANGED <<now, keySeen, rlVars, tokVars, svcVars, fnVars>>

\* the holder of a key for user_id moves the boundary between identity and
\* timestamp to another '.' or ':' of the signed message, and keeps the
\* signature
ResplitKey ==
    /\ keyOrigin # None /\ Get(keyOrigin).tamper = "none"
    /\ LET o == Get(keyOrigin)
           message == o.user_id \o <<":">> \o Str(o.at)
       IN \E i \in 1..Len(message) :
              /\ message[i] \in {":", "."}
              /\ i # Len(o.user_id) + 1
              /\ api_key' = Some(SubSeq(message, 1, i - 1) \o <<".">>
                                 \o SubSeq(message, i + 1, Len(message)) \o <<".">>
                                 \o <<Hmac(SECRET_KEY, message)>>)
              /\ keyOrigin' = Some([o EXCEPT !.tamper = "resplit"])
    /\ keyResult' = None
    /\ UNCHANGED <<now, keySeen, rlVars, tokVars, svcVars, fnVars>>

\* the number of '.'-separated parts of the presented key, counted on the key
NumParts(key) == 1 + Cardinality({i \in 1..Len(key) : key[i] = "."})

\* why the presented key has to be rejected, from how it came about
\* ("Valid" when it has not); "Rearranged" is a key whose identity and
\* timestamp parts were re-split
KeyCase(origin, key, t) ==
    IF NumParts(key) # 3 THEN "BadFormat"
    ELSE IF origin.tamper = "resplit" THEN "Rearranged"
    ELSE IF origin.tamper # "none" THEN "BadSignature"
    ELSE IF t - origin.at > API_KEY_LIFETIME THEN "Expired"
    ELSE "Valid"

\* the reasons for a rejection whose outcomes keySeen collects
RejectedCases == {"BadFormat", "BadSignature", "Expired"}

\* what the caller of verify_api_key gets to see of an outcome
Visible(out) == [ok |-> out.ok, status_code |-> out.status_code, detail |-> out.detail]

\* the service verifies the presented key
CheckApiKey ==
    /\ api_key # None
    /\ LET out == VerifyApiKey(Get(api_key), now)
           case == KeyCase(Get(keyOrigin), Get(api_key), now)
       IN /\ keyResult' = Some([at |-> now, case |-> case, out |-> out])
          /\ keySeen' = IF out.ok \/ case \notin RejectedCases
                      THEN keySeen
                      ELSE keySeen \cup {<<case, Visible(out)>>}
    /\ UNCHANGED <<now, api_key, keyOrigin, rlVars, tokVars, svcVars, fnVars>>

TicksTaken == (now \div API_KEY_LIFETIME) + (now % API_KEY_LIFETIME)

\* a second, or 24 hours, pass
KeyTick ==
    /\ TicksTaken < MaxKeyTicks
    /\ \E d \in {1, API_KEY_LIFETIME} : now' = now + d
    /\ UNCHANGED <<rlVars, keyVars, tokVars, svcVars, fnVars>>

ApiKeyNext ==
    \/ \E u \in UserIds : IssueApiKey(u)
    \/ TruncateKey
    \/ ResignKey
    \/ RedateKey
    \/ ResplitKey
    \/ CheckApiKey
    \/ KeyTick

(***************************************************************************)
(* SecurityManager: access tokens (security.py 46-69)                       *)
(***************************************************************************)
ACCESS_TOKEN_EXPIRE_MINUTES == 30   \* settings.ACCESS_TOKEN_EXPIRE_MINUTES

SecondsPerMinute == 60              \* timedelta(minutes=...)

MaxLifetime == 2     \* explicit lifetimes are 0..MaxLifetime seconds
MaxTokTicks == 3     \* clock advances per behaviour of the token model

\* the default lifetime, timedelta(minutes=self.access_token_expire_minutes)
DefaultLifetime == ACCESS_TOKEN_EXPIRE_MINUTES * SecondsPerMinute

\* the data dicts tokens are issued for: a subject, with or without roles
TokenData ==
    {[sub |-> "alice"],
     [sub |-> "alice", roles |-> <<"admin">>],
     [sub |-> "bob", roles |-> <<"viewer", "editor">>]}

\* expires_delta: None, or a timedelta of so many seconds
Lifetimes == {None} \cup {Some(l) : l \in 0..MaxLifetime}

\* bool(expires_delta): None and timedelta(0) are falsy
Truthy(expires_delta) == expires_delta # None /\ Get(expires_delta) # 0

\* jwt.encode(claims, key, algorithm): the claims and a signature that is
\* different for different (key, claims)
JwtEncode(claims, key) == [payload |-> claims, signature |-> Hmac(key, claims)]

\* jwt.decode(token, key, algorithms) at time t: the payload, or the JWTError
JwtDecode(tok, key, t) ==
    IF tok.signature # Hmac(key, tok.payload)
    THEN [ok |-> FALSE, error |-> "Signature verification failed."]
    ELSE IF "exp" \in DOMAIN tok.payload /\ tok.payload["exp"] < t
    THEN [ok |-> FALSE, error |-> "Signature has expired."]
    ELSE [ok |-> TRUE, payload |-> tok.payload]

\* create_access_token(data, expires_delta) at time t
CreateAccessToken(data, expires_delta, t) ==
    LET expire == IF Truthy(expires_delta)
                  THEN t + Get(expires_delta)
                  ELSE t + DefaultLifetime
        to_encode == Put(data, "exp", expire)
    IN JwtEncode(to_encode, SECRET_KEY)

TokenRejectedLeaksReason(error) ==
    [ok |-> FALSE, payload |-> EmptyMap, status_code |-> 401,
     detail |-> error, logged |-> error]

\* the HTTPException verify_token turns every JWTError into (63-69)
TokenRejected(error) ==
    [ok |-> FALSE, payload |-> EmptyMap, status_code |-> 401,
     detail |-> "Could not validate credentials", logged |-> error]

\* verify_token(token) at time t: the payload it returns, or the
\* HTTPException it raises (with the error it logs)
VerifyToken(tok, t) ==
    LET decoded == JwtDecode(tok, SECRET_KEY, t) IN
    IF decoded.ok
    THEN [ok |-> TRUE, payload |-> decoded.payload, status_code |-> 200,
          detail |-> "", logged |-> ""]
    ELSE TokenRejected(decoded.error)

TokenIdle ==
    /\ token = None
    /\ tokOrigin = None
    /\ tokResult = None
    /\ tokSeen = {}

\* a caller is issued a token for data, with or without an explicit lifetime
IssueToken(data, expires_delta) ==
    /\ token' = Some(CreateAccessToken(data, expires_delta, now))
    /\ tokOrigin' = Some([data |-> data, at |-> now, delta |-> expires_delta,
                          forged |-> FALSE])
    /\ tokResult' = None
    /\ UNCHANGED <<now, tokSeen, rlVars, keyVars, svcVars, fnVars>>

\* somebody without the service secret signs the same claims
ForgeToken ==
    /\ tokOrigin # None /\ ~Get(tokOrigin).forged
    /\ token' = Some(JwtEncode(Get(token).payload, ForeignSecret))
    /\ tokOrigin' = Some([Get(tokOrigin) EXCEPT !.forged = TRUE])
    /\ tokResult' = None
    /\ UNCHANGED <<now, tokSeen, rlVars, keyVars, svcVars, fnVars>>

\* why the presented token has to be rejected, from how it came about
\* ("Valid" when it has not)
TokenCase(origin, tok, t) ==
    IF origin.forged THEN "InvalidSignature"
    ELSE IF t > tok.payload["exp"] THEN "Expired"
    ELSE "Valid"

\* the service verifies the presented token
CheckToken ==
    /\ token # None
    /\ LET out == VerifyToken(Get(token), now)
           case == TokenCase(Get(tokOrigin), Get(token), now)
       IN /\ tokResult' = Some([at |-> now, case |-> case, out |-> out])
          /\ tokSeen' = IF out.ok THEN tokSeen ELSE tokSeen \cup {<<case, Visible(out)>>}
    /\ UNCHANGED <<now, token, tokOrigin, rlVars, keyVars, svcVars, fnVars>>

TokTicksTaken == (now \div DefaultLifetime) + (now % DefaultLifetime)

\* a second, or the default lifetime, passes
TokTick ==
    /\ TokTicksTaken < MaxTokTicks
    /\ \E d \in {1, DefaultLifetime} : now' = now + d
    /\ UNCHANGED <<rlVars, keyVars, tokVars, svcVars, fnVars>>

TokenNext ==
    \/ \E d \in TokenData, l \in Lifetimes : IssueToken(d, l)
    \/ ForgeToken
    \/ CheckToken
    \/ TokTick

(***************************************************************************)
(* AICodeCompletionService (ai_code_completion.py)                          *)
(***************************************************************************)
MaxClock == 1        \* the service's clock runs 0..MaxClock

\* the callers whose get_completion calls can be in progress at once
Tasks == {"t1", "t2"}

TOP_N == 5                  \* suggestions[:5]
OPENAI_CONFIDENCE == 9      \* 0.9, in tenths
CUSTOM_CONFIDENCE == 7      \* 0.7, in tenths
FALLBACK_CONFIDENCE == 5    \* 0.5, in tenths

\* models_config of _load_custom_models
ModelLanguages == {"python", "javascript", "typescript", "java"}

\* language_patterns of _get_fallback_suggestions
PythonPatterns ==
    <<"def ", "class ", "import ", "from ", "if __name__ == '__main__':", "try:",
      "except ", "finally:", "with ", "async def ", "await ", "return ", "yield ",
      "raise ", "assert ", "print(", "len(", "str(", "int(", "list(", "dict(",
      "set(", "tuple(">>

JavascriptPatterns ==
    <<"function ", "const ", "let ", "var ", "if (", "for (", "while (", "try {",
      "catch (", "finally {", "async function ", "await ", "return ", "throw ",
      "console.log(", "console.error(", "console.warn(", "Array(", "Object(",
      "String(", "Number(", "Boolean(", "Date(", "Math.", "JSON.">>

TypescriptPatterns ==
    <<"function ", "const ", "let ", "var ", "interface ", "type ", "enum ",
      "class ", "async function ", "await ", "return ", "throw ", "console.log(",
      "Array<", "Promise<", "Map<", "Set<", "Record<", "Partial<", "Required<",
      "Pick<", "Omit<">>

JavaPatterns ==
    <<"public class ", "public static void main(", "public void ", "private ",
      "protected ", "static ", "final ", "abstract ", "interface ", "enum ",
      "try {", "catch (", "finally {", "if (", "for (", "while (", "return ",
      "throw ", "System.out.println(", "System.out.print(", "new ", "super(",
      "this.">>

LanguagePatternsDefaultsToPython(language) ==
    CASE language = "python" -> PythonPatterns
      [] language = "javascript" -> JavascriptPatterns
      [] language = "typescript" -> TypescriptPatterns
      [] language = "java" -> JavaPatterns
      [] OTHER -> PythonPatterns

\* language_patterns.get(request.language, [])
LanguagePatterns(language) ==
    CASE language = "python" -> PythonPatterns
      [] language = "javascript" -> JavascriptPatterns
      [] language = "typescript" -> TypescriptPatterns
      [] language = "java" -> JavaPatterns
      [] OTHER -> <<>>

\* str.lower() on the pieces of the model that hold a capital letter
LowerCased ==
    {<<"DEF ", "def ">>, <<"Class ", "class ">>, <<"CONST ", "const ">>,
     <<"Array(", "array(">>, <<"Object(", "object(">>, <<"String(", "string(">>,
     <<"Number(", "number(">>, <<"Boolean(", "boolean(">>, <<"Date(", "date(">>,
     <<"Math.", "math.">>, <<"JSON.", "json.">>,
     <<"Array<", "array<">>, <<"Promise<", "promise<">>, <<"Map<", "map<">>,
     <<"Set<", "set<">>, <<"Record<", "record<">>, <<"Partial<", "partial<">>,
     <<"Required<", "required<">>, <<"Pick<", "pick<">>, <<"Omit<", "omit<">>,
     <<"System.out.println(", "system.out.println(">>,
     <<"System.out.print(", "system.out.print(">>}

Lower(piece) ==
    IF \E m \in LowerCased : m[1] = piece
    THEN (CHOOSE m \in LowerCased : m[1] = piece)[2]
    ELSE piece

\* the lower-case pieces of the model that hold another one inside
Inside ==
    {<<"async def ", "def ">>, <<"async function ", "function ">>,
     <<"public class ", "class ">>, <<"system.out.print(", "print(">>}

\* pattern.lower() in last_line.lower(), for a line whose pieces each hold
\* the patterns listed in Inside and no pattern across two pieces
OccursIn(pattern, line) ==
    \E i \in 1..Len(line) :
        \/ Lower(line[i]) = Lower(pattern)
        \/ <<Lower(line[i]), Lower(pattern)>> \in Inside

\* request.code.split('\n')[-1]
LastLine(code) == LET lines == Split(code, "\n") IN lines[Len(lines)]

LastN(s, n) == SubSeq(s, (IF Len(s) < n THEN 0 ELSE Len(s) - n) + 1, Len(s))

\* s[:n]
FirstN(s, n) == SubSeq(s, 1, IF Len(s) < n THEN Len(s) ELSE n)

FallbackSuggestionsCaseSensitive(req) ==
    LET patterns == LanguagePatterns(req.language)
        last_line == LastLine(req.code)
        suggestions ==
            SelectSeq(patterns,
                      LAMBDA pattern : ~\E i \in 1..Len(last_line) : last_line[i] = pattern)
    IN FirstN(suggestions, TOP_N)

\* _get_fallback_suggestions(request)
FallbackSuggestions(req) ==
    LET patterns == LanguagePatterns(req.language)
        last_line == LastLine(req.code)
        suggestions == SelectSeq(patterns, LAMBDA pattern : ~OccursIn(pattern, last_line))
    IN FirstN(suggestions, TOP_N)

\* bool(request.context): None and "" are falsy
HasContext(req) == req.context # None /\ Get(req.context) # <<>>

\* _generate_reasoning(request, suggestions)
GenerateReasoning(req, suggestions) ==
    IF Len(suggestions) = 0 THEN <<"No suggestions available">>
    ELSE <<"Generated ">> \o Str(Len(suggestions)) \o <<" suggestions for ",
           req.language, " code based on ">>
         \o (IF HasContext(req)
             THEN <<"context '">> \o Get(req.context) \o <<"' and ">>
             ELSE <<>>)
         \o <<"current code structure. Top suggestions focus on common patterns and best practices for ",
              req.language, ".">>

\* hashlib.md5(content.encode()).hexdigest(): one piece, taken to differ for
\* different content
Md5(content) == ToString(content)

CacheKeyContentWithUser(req) ==
    req.code \o <<":", req.language, ":">> \o Str(req.max_tokens)
    \o <<":", req.temperature>>
    \o (IF HasContext(req) THEN <<":">> \o Get(req.context) ELSE <<>>)
    \o (IF req.user_id # None THEN <<":", Get(req.user_id)>> ELSE <<>>)

\* the string _generate_cache_key hashes
CacheKeyContent(req) ==
    req.code \o <<":", req.language, ":">> \o Str(req.max_tokens)
    \o <<":", req.temperature>>
    \o (IF HasContext(req) THEN <<":">> \o Get(req.context) ELSE <<>>)

\* _generate_cache_key(request)
GenerateCacheKey(req) == Md5(CacheKeyContent(req))

\* the requests of the model; temperature is held as its str(), as the cache
\* key uses it
Requests ==
    {[code |-> <<"def ", "fib(n):", "\n", "    ">>, language |-> "python",
      context |-> None, max_tokens |-> 50, temperature |-> "0.7", user_id |-> Some(u)]
        : u \in {"alice", "bob"}}
    \cup
    {[code |-> <<"const ", "total = ">>, language |-> "javascript",
      context |-> Some(<<"sum the cart">>), max_tokens |-> 100, temperature |-> "0.7",
      user_id |-> None]}

\* the languages CodeCompletionRequestModel accepts (the regex of its
\* language field)
AcceptedLanguages ==
    {"python", "javascript", "typescript", "java", "cpp", "csharp", "go", "rust"}

\* the keys of language_patterns in _get_fallback_suggestions
TableLanguages == {"python", "javascript", "typescript", "java"}

\* one request in each accepted language that has no table
NoTableRequests ==
    {[code |-> <<"int ", "main() {">>, language |-> l, context |-> None,
      max_tokens |-> 100, temperature |-> "0.7", user_id |-> None]
        : l \in AcceptedLanguages \ TableLanguages}

CacheKeys == {GenerateCacheKey(r) : r \in Requests \cup NoTableRequests}

\* what _get_openai_completion can return: the non-empty choices of the
\* reply (n=3), or [] after an exception
OpenAIReplies ==
    {<<>>, <<"choice 1", "choice 2", "choice 3">>}

\* what _get_custom_model_completion can return: the non-blank decoded
\* samples (num_return_sequences=3, do_sample=True), or [] after an exception
CustomReplies ==
    {<<>>, <<"sample 1", "sample 2", "sample 3">>}

\* [c] * n
Repeat(c, n) == [i \in 1..n |-> c]

CacheLookupNeverHits(c, key) == None

CacheLookupRelabels(c, key) ==
    IF key \in DOMAIN c THEN Some([c[key] EXCEPT !.model_used = "cache"]) ELSE None

\* "if cache_key in self.cache: return self.cache[cache_key]"
CacheLookup(c, key) == IF key \in DOMAIN c THEN Some(c[key]) ELSE None

NoSuggestionsOffByOne(suggestions) == Len(suggestions) <= 1

\* "if not suggestions:"
NoSuggestions(suggestions) == Len(suggestions) = 0

RunProvidersLocalOnlyAfterEmptyRemote(req, openai_reply, custom_reply, models) ==
    LET openai_suggestions == IF openai_reply = None THEN <<>> ELSE Get(openai_reply)
        has_custom == req.language \in models /\ openai_suggestions = <<>>
        custom_suggestions == IF has_custom THEN custom_reply ELSE <<>>
        s1 == openai_suggestions \o custom_suggestions
        c1 == Repeat(OPENAI_CONFIDENCE, Len(openai_suggestions))
              \o Repeat(CUSTOM_CONFIDENCE, Len(custom_suggestions))
        m1 == IF has_custom THEN "custom" ELSE "openai"
        use_fallback == NoSuggestions(s1)
        fallback_suggestions == FallbackSuggestions(req)
    IN [invoked |-> (IF openai_reply = None THEN <<>> ELSE <<"openai">>)
                    \o (IF has_custom THEN <<"custom">> ELSE <<>>)
                    \o (IF use_fallback THEN <<"rule-based">> ELSE <<>>),
        suggestions |-> IF use_fallback THEN s1 \o fallback_suggestions ELSE s1,
        confidence_scores |->
            IF use_fallback
            THEN c1 \o Repeat(FALLBACK_CONFIDENCE, Len(fallback_suggestions))
            ELSE c1,
        model_used |-> IF use_fallback THEN "rule-based" ELSE m1]

\* get_completion's provider chain after the cache miss, from the reply of the
\* remote model (None when no client is set: the call is skipped) and of the
\* local model (used only when one is loaded for the language): the providers
\* invoked, in order, and the lists and label they leave
RunProviders(req, openai_reply, custom_reply, models) ==
    LET openai_suggestions == IF openai_reply = None THEN <<>> ELSE Get(openai_reply)
        has_custom == req.language \in models
        custom_suggestions == IF has_custom THEN custom_reply ELSE <<>>
        s1 == openai_suggestions \o custom_suggestions
        c1 == Repeat(OPENAI_CONFIDENCE, Len(openai_suggestions))
              \o Repeat(CUSTOM_CONFIDENCE, Len(custom_suggestions))
        m1 == IF has_custom THEN "custom" ELSE "openai"
        use_fallback == NoSuggestions(s1)
        fallback_suggestions == FallbackSuggestions(req)
    IN [invoked |-> (IF openai_reply = None THEN <<>> ELSE <<"openai">>)
                    \o (IF has_custom THEN <<"custom">> ELSE <<>>)
                    \o (IF use_fallback THEN <<"rule-based">> ELSE <<>>),
        suggestions |-> IF use_fallback THEN s1 \o fallback_suggestions ELSE s1,
        confidence_scores |->
            IF use_fallback
            THEN c1 \o Repeat(FALLBACK_CONFIDENCE, Len(fallback_suggestions))
            ELSE c1,
        model_used |-> IF use_fallback THEN "rule-based" ELSE m1]

\* get_completion after the cache miss: the response built from the
\* providers' lists
BuildResponse(req, openai_reply, custom_reply, models, started, t) ==
    LET run == RunProviders(req, openai_reply, custom_reply, models)
    IN [suggestions |-> FirstN(run.suggestions, TOP_N),
        confidence_scores |-> FirstN(run.confidence_scores, TOP_N),
        reasoning |-> GenerateReasoning(req, run.suggestions),
        model_used |-> run.model_used,
        processing_time |-> t - started]

ServiceIdle ==
    /\ openai_client = FALSE
    /\ custom_models = {}
    /\ cache = EmptyMap
    /\ pc = [t \in Tasks |-> "idle"]
    /\ request = [t \in Tasks |-> None]
    /\ start_time = [t \in Tasks |-> 0]
    /\ result = [t \in Tasks |-> None]
    /\ prior = [t \in Tasks |-> None]
    /\ lastReturn = None
    /\ chainRuns = [k \in CacheKeys |-> 0]
    /\ expired = {}
    /\ inserted = <<>>
    /\ instance = [t \in Tasks |-> EmptyMap]

\* __init__ and _initialize_services: the client is set when an API key is
\* configured; each model of models_config is loaded unless loading it fails
ServiceInit ==
    /\ openai_client \in BOOLEAN
    /\ custom_models \in {m \in SUBSET ModelLanguages : m \subseteq {"python"}}
    /\ cache = EmptyMap
    /\ pc = [t \in Tasks |-> "idle"]
    /\ request = [t \in Tasks |-> None]
    /\ start_time = [t \in Tasks |-> 0]
    /\ result = [t \in Tasks |-> None]
    /\ prior = [t \in Tasks |-> None]
    /\ lastReturn = None
    /\ chainRuns = [k \in CacheKeys |-> 0]
    /\ expired = {}
    /\ inserted = <<>>
    /\ instance = [t \in Tasks |-> EmptyMap]

\* the fingerprint of the request of task t
KeyOf(t) == GenerateCacheKey(Get(request[t]))

\* the calls in progress other than t are no longer "right after" the call
\* they followed: another operation has taken place
Disturb(t) ==
    [u \in Tasks |-> IF u # t /\ pc[u] = "awaiting_openai" THEN None ELSE prior[u]]

\* the response of the call of the same request that returned in the
\* operation right before, if there is one
PriorOf(req) ==
    IF lastReturn # None /\ request[Get(lastReturn)] = Some(req)
    THEN result[Get(lastReturn)]
    ELSE None

\* task t returns response res
Returns(t, res) ==
    /\ pc' = [pc EXCEPT ![t] = "done"]
    /\ result' = [result EXCEPT ![t] = Some(res)]
    /\ start_time' = [start_time EXCEPT ![t] = 0]
    /\ lastReturn' = Some(t)

\* the rest of get_completion after the remote model's reply: the local
\* model, the fallback, the response, the store in the cache, the return
Finish(t, req, openai_reply, started) ==
    \E custom_reply \in CustomReplies :
        LET response == BuildResponse(req, openai_reply, custom_reply,
                                      custom_models, started, now)
            cache_key == GenerateCacheKey(req)
        IN /\ cache' = Put(cache, cache_key, response)
           /\ expired' = expired \ {cache_key}
           /\ inserted' = IF cache_key \in DOMAIN cache THEN inserted
                                                       ELSE Append(inserted, cache_key)
           /\ Returns(t, response)

\* get_completion(req) begins for caller t, whose earlier call has returned,
\* and runs to its first suspension: a cache hit returns at once; a miss
\* awaits the remote model when a client is set, and otherwise runs through
\* to the return
GetCompletion(t, req) ==
    /\ pc[t] # "awaiting_openai"
    /\ request' = [request EXCEPT ![t] = Some(req)]
    /\ prior' = [Disturb(t) EXCEPT ![t] = PriorOf(req)]
    /\ LET cache_key == GenerateCacheKey(req)
           cached_result == CacheLookup(cache, cache_key)
       IN IF cached_result # None
          THEN /\ Returns(t, Get(cached_result))
               /\ UNCHANGED <<cache, chainRuns, expired, inserted>>
          ELSE /\ chainRuns' = [chainRuns EXCEPT ![cache_key] = @ + 1]
               /\ IF openai_client
                  THEN /\ pc' = [pc EXCEPT ![t] = "awaiting_openai"]
                       /\ start_time' = [start_time EXCEPT ![t] = now]
                       /\ result' = [result EXCEPT ![t] = None]
                       /\ lastReturn' = None
                       /\ UNCHANGED <<cache, expired, inserted>>
                  ELSE Finish(t, req, None, now)
    /\ UNCHANGED <<now, openai_client, custom_models, instance, rlVars, keyVars, tokVars,
                   fnVars>>

\* the remote model's reply (or its failure) reaches task t, which runs
\* through to the return
OpenAIReturns(t, reply) ==
    /\ pc[t] = "awaiting_openai"
    /\ Finish(t, Get(request[t]), Some(reply), start_time[t])
    /\ prior' = Disturb(t)
    /\ UNCHANGED <<now, openai_client, custom_models, request, chainRuns, instance,
                   rlVars, keyVars, tokVars, fnVars>>

\* a call is cancelled only while its fingerprint has had at most this many
\* runs of the chain
MaxCancelledRuns == 1

CaughtByExceptExceptionAll(exc) == TRUE

\* "except Exception" catches exc: asyncio.CancelledError derives from
\* BaseException (Python 3.8 and later), the errors of the remote call
\* derive from Exception
CaughtByExceptException(exc) == exc # "CancelledError"

\* the call of task t is cancelled while it awaits the remote model (the only
\* place where get_completion is suspended): CancelledError is raised at the
\* await of line 161. Caught there, the call would go on as after a failed
\* remote call; not caught, it leaves _get_openai_completion and, through
\* "except Exception: raise" (151-153), get_completion
Cancel(t) ==
    /\ pc[t] = "awaiting_openai"
    /\ chainRuns[KeyOf(t)] <= MaxCancelledRuns
    /\ IF CaughtByExceptException("CancelledError")
       THEN Finish(t, Get(request[t]), Some(<<>>), start_time[t])
       ELSE /\ pc' = [pc EXCEPT ![t] = "cancelled"]
            /\ result' = [result EXCEPT ![t] = None]
            /\ start_time' = [start_time EXCEPT ![t] = 0]
            /\ lastReturn' = None
            /\ UNCHANGED <<cache, expired, inserted>>
    /\ prior' = Disturb(t)
    /\ UNCHANGED <<now, openai_client, custom_models, request, chainRuns, instance,
                   rlVars, keyVars, tokVars, fnVars>>

\* calls, replies of the remote model and cancellations
CancelNext ==
    \/ \E t \in Tasks, r \in Requests : GetCompletion(t, r)
    \/ \E t \in Tasks, reply \in OpenAIReplies : OpenAIReturns(t, reply)
    \/ \E t \in Tasks : Cancel(t)

(***************************************************************************)
(* POST /complete: complete_code behind rate_limit (code_completion.py      *)
(* 61-133, security.py 195-212)                                             *)
(***************************************************************************)
\* re.sub(r'[<>"\']', '', text) on the pieces of the model that hold one of
\* these characters
Sanitized == {<<"<total> = ", "total = ">>, <<"'sum' the cart", "sum the cart">>}

SanitizePiece(piece) ==
    IF \E m \in Sanitized : m[1] = piece
    THEN (CHOOSE m \in Sanitized : m[1] = piece)[2]
    ELSE piece

\* validate_input_sanitization(text), for a text within MAX_CODE_LENGTH
Sanitize(text) == [i \in 1..Len(text) |-> SanitizePiece(text[i])]

\* the request bodies of the model (CodeCompletionRequestModel)
EndpointBodies ==
    {[code |-> <<"def ", "fib(n):", "\n", "    ">>, language |-> "python",
      context |-> None, max_tokens |-> 50, temperature |-> "0.7"],
     [code |-> <<"const ", "<total> = ">>, language |-> "javascript",
      context |-> Some(<<"'sum' the cart">>), max_tokens |-> 100, temperature |-> "0.7"]}

\* current_user.get("sub") of the verified tokens
Subjects == {"alice"}

\* the CodeCompletionRequest complete_code builds (lines 83-94)
ServiceRequest(body, sub) ==
    [code |-> Sanitize(body.code),
     language |-> body.language,
     context |-> IF HasContext(body) THEN Some(Sanitize(Get(body.context))) ELSE None,
     max_tokens |-> body.max_tokens,
     temperature |-> body.temperature,
     user_id |-> Some(sub)]

\* "ai_service: AICodeCompletionService = Depends()": the class is called for
\* every request, and __init__ sets self.cache = {}
NewServiceCache == EmptyMap

\* the window of @rate_limit(limit=50, window=60)
COMPLETE_WINDOW == 60

\* the limit of @rate_limit(limit=50, window=60), scaled down
EndpointRateInit ==
    /\ requests = EmptyMap
    /\ limitOf \in {[f \in Operations |-> l] : l \in 1..MaxLimit}
    /\ windowOf = [f \in Operations |-> COMPLETE_WINDOW]
    /\ calls = [p \in Clients \X Operations |-> <<>>]
    /\ workers = [w \in Workers |-> IdleWorker]

RateLimitGateLetsThrough(allowed) == "call"

\* the wrapper of rate_limit after is_allowed: it raises the 429, or it
\* calls the decorated function
RateLimitGate(allowed) == IF allowed THEN "call" ELSE "raise"

\* the request of task t ends without a response of the service
EndsWith(t, outcome) ==
    /\ pc' = [pc EXCEPT ![t] = outcome]
    /\ result' = [result EXCEPT ![t] = None]
    /\ start_time' = [start_time EXCEPT ![t] = 0]
    /\ lastReturn' = None

\* the rest of get_completion on the service instance of task t, as Finish
EndpointFinish(t, req, openai_reply, started) ==
    \E custom_reply \in CustomReplies :
        LET response == BuildResponse(req, openai_reply, custom_reply,
                                      custom_models, started, now)
        IN /\ instance' = [instance EXCEPT
                               ![t] = Put(@, GenerateCacheKey(req), response)]
           /\ Returns(t, response)

\* POST /complete handled by task t, the dependencies resolved (the token
\* verified for sub, a service instance created). host is request.client.host
\* of the object the wrapper is called with under the name request, None when
\* that object has no attribute client: the wrapper then raises
\* AttributeError, and the request ends with 500. Else is_allowed decides:
\* the 429, or complete_code runs up to the first suspension of
\* get_completion on the new instance
CompleteCode(t, host, sub, body) ==
    /\ pc[t] # "awaiting_openai"
    /\ request' = [request EXCEPT ![t] = Some(ServiceRequest(body, sub))]
    /\ IF host = None
       THEN /\ EndsWith(t, "failed")
            /\ instance' = [instance EXCEPT ![t] = NewServiceCache]
            /\ UNCHANGED <<rlVars, chainRuns>>
       ELSE /\ NumCalls < MaxCalls
            /\ LET key == RateKey(Get(host), "complete_code")
                   out == IsAllowed(requests, key, limitOf["complete_code"],
                                    windowOf["complete_code"], now)
                   service_request == ServiceRequest(body, sub)
                   cache_key == GenerateCacheKey(service_request)
                   cached_result == CacheLookup(NewServiceCache, cache_key)
               IN /\ requests' = out.requests
                  /\ calls' = [calls EXCEPT ![<<Get(host), "complete_code">>] =
                                   Append(@, [at |-> now, ok |-> out.ok])]
                  /\ UNCHANGED <<limitOf, windowOf, workers>>
                  /\ IF RateLimitGate(out.ok) = "raise"
                     THEN /\ EndsWith(t, "rejected")
                          /\ instance' = [instance EXCEPT ![t] = NewServiceCache]
                          /\ UNCHANGED chainRuns
                     ELSE IF cached_result # None
                     THEN /\ Returns(t, Get(cached_result))
                          /\ instance' = [instance EXCEPT ![t] = NewServiceCache]
                          /\ UNCHANGED chainRuns
                     ELSE /\ chainRuns' = [chainRuns EXCEPT ![cache_key] = @ + 1]
                          /\ IF openai_client
                             THEN /\ pc' = [pc EXCEPT ![t] = "awaiting_openai"]
                                  /\ start_time' = [start_time EXCEPT ![t] = now]
                                  /\ result' = [result EXCEPT ![t] = None]
                                  /\ lastReturn' = None
                                  /\ instance' = [instance EXCEPT ![t] = NewServiceCache]
                             ELSE /\ instance' = [instance EXCEPT
                                                      ![t] = Put(NewServiceCache, cache_key,
                                                                 BuildResponse(service_request,
                                                                     None, <<>>, custom_models,
                                                                     now, now))]
                                  /\ Returns(t, BuildResponse(service_request, None, <<>>,
                                                              custom_models, now, now))
    /\ UNCHANGED <<now, openai_client, custom_models, cache, prior, expired, inserted,
                   keyVars, tokVars, fnVars>>

\* the remote model's reply reaches the request of task t, which runs through
\* to its response
CompleteReturns(t, reply) ==
    /\ pc[t] = "awaiting_openai"
    /\ EndpointFinish(t, Get(request[t]), Some(reply), start_time[t])
    /\ UNCHANGED <<now, openai_client, custom_models, cache, request, prior, chainRuns,
                   expired, inserted, rlVars, keyVars, tokVars, fnVars>>

EndpointNext ==
    \/ \E t \in Tasks, host \in {None} \cup {Some(c) : c \in Clients},
          sub \in Subjects, body \in EndpointBodies : CompleteCode(t, host, sub, body)
    \/ \E t \in Tasks, reply \in OpenAIReplies : CompleteReturns(t, reply)

ServiceTick ==
    /\ now < MaxClock
    /\ now' = now + 1
    /\ UNCHANGED <<rlVars, keyVars, tokVars, svcVars, fnVars>>

\* settings.CACHE_TTL, seconds; the service never reads it
CACHE_TTL == 3600

\* settings.CACHE_MAX_SIZE as the deployment's environment sets it (1000 when
\* unset); the service never reads it
CacheMaxSize == 1

MaxExpiries == 1     \* times a behaviour lets more than CACHE_TTL pass at once

\* more than CACHE_TTL passes while no call is in progress: every entry the
\* cache holds is now older than CACHE_TTL
TtlElapses ==
    /\ now <= (MaxExpiries - 1) * (CACHE_TTL + 1)
    /\ \A t \in Tasks : pc[t] # "awaiting_openai"
    /\ now' = now + CACHE_TTL + 1
    /\ expired' = DOMAIN cache
    /\ UNCHANGED <<openai_client, custom_models, cache, pc, request, start_time, result,
                   prior, lastReturn, chainRuns, inserted, instance, rlVars, keyVars,
                   tokVars, fnVars>>

CacheLifeNext ==
    \/ \E t \in Tasks, r \in Requests : GetCompletion(t, r)
    \/ \E t \in Tasks, reply \in OpenAIReplies : OpenAIReturns(t, reply)
    \/ TtlElapses

\* the service receives requests in the languages without a table only
NoTableNext == \E t \in Tasks, r \in NoTableRequests : GetCompletion(t, r)

Next ==
    \/ \E t \in Tasks, r \in Requests : GetCompletion(t, r)
    \/ \E t \in Tasks, reply \in OpenAIReplies : OpenAIReturns(t, reply)
    \/ ServiceTick

(***************************************************************************)
(* The provider chain as a function of what the providers do                *)
(***************************************************************************)
\* str.strip() on the texts of the model that begin or end with white space
Stripped == {<<"  ", "">>, <<" choice 2 ", "choice 2">>, <<"sample 2\n", "sample 2">>}

Strip(text) ==
    IF \E m \in Stripped : m[1] = text
    THEN (CHOOSE m \in Stripped : m[1] = text)[2]
    ELSE text

\* [strip(x) for x in texts if strip(x)]
NonBlank(texts) ==
    LET stripped == [i \in 1..Len(texts) |-> Strip(texts[i])]
    IN SelectSeq(stripped, LAMBDA text : text # "")

\* what the remote call does: it raises (network, authentication, quota), or
\* it answers with up to n=3 choices
RemoteOutcomes ==
    {[raised |-> TRUE, texts |-> <<>>]}
    \cup {[raised |-> FALSE, texts |-> c] :
            c \in {<<>>, <<"  ">>, <<"choice 1">>, <<"choice 1", " choice 2 ", "  ">>,
                   <<"choice 1", " choice 2 ", "choice 3">>}}

\* what the local inference does: it raises, or it decodes
\* num_return_sequences=3 samples
LocalOutcomes ==
    {[raised |-> TRUE, texts |-> <<>>]}
    \cup {[raised |-> FALSE, texts |-> c] :
            c \in {<<"  ", "", "  ">>, <<"sample 1", "", "  ">>,
                   <<"sample 1", "sample 2\n", "sample 3">>}}

GetOpenAICompletionPropagates(outcome) ==
    IF outcome.raised
    THEN [raised |-> TRUE, value |-> <<>>]
    ELSE [raised |-> FALSE, value |-> NonBlank(outcome.texts)]

\* _get_openai_completion(request): the non-blank choices, [] on any exception
GetOpenAICompletion(outcome) ==
    IF outcome.raised
    THEN [raised |-> FALSE, value |-> <<>>]
    ELSE [raised |-> FALSE, value |-> NonBlank(outcome.texts)]

\* _get_custom_model_completion(request): [] without a model for the
\* language, else the non-blank samples, [] on any exception
GetCustomModelCompletion(req, models, outcome) ==
    IF req.language \notin models THEN [raised |-> FALSE, value |-> <<>>]
    ELSE IF outcome.raised THEN [raised |-> FALSE, value |-> <<>>]
    ELSE [raised |-> FALSE, value |-> NonBlank(outcome.texts)]

\* requests for the chain: a last line that holds patterns in another case
\* and inside longer words, a language with a short table left, a language
\* without a table, code of several lines
ChainRequests ==
    {[code |-> c[1], language |-> c[2], context |-> None, max_tokens |-> 100,
      temperature |-> "0.7", user_id |-> None] :
        c \in {<<<<"import ", "os", "\n", "DEF ", "async def ", "Class ">>, "python">>,
               <<<<"def ", "f():", "\n", "    ">>, "python">>,
               <<<<"CONST ", "x = ", "Array(", "async function ">>, "javascript">>,
               <<<<"public class ", "A {">>, "java">>,
               <<<<"interface ", "A {">>, "typescript">>,
               <<<<"func main() {">>, "go">>,
               <<<<"fn main() {">>, "rust">>}}

ChainInputs ==
    [req : ChainRequests, client : BOOLEAN,
     models : {{}, {"python"}, ModelLanguages},
     remote : RemoteOutcomes, local : LocalOutcomes]

\* get_completion on a cache miss (lines 103-153) as a function of its
\* request, the service's configuration and what the two providers do: it
\* raises what a provider call raises ("except Exception: raise"), and
\* otherwise returns the response
GetCompletionOnMiss(in) ==
    LET remote == IF in.client THEN GetOpenAICompletion(in.remote)
                               ELSE [raised |-> FALSE, value |-> <<>>]
        local == GetCustomModelCompletion(in.req, in.models, in.local)
        openai_reply == IF in.client THEN Some(remote.value) ELSE None
    IN IF remote.raised \/ local.raised
       THEN [raised |-> TRUE, run |-> None, response |-> None]
       ELSE [raised |-> FALSE,
             run |-> Some(RunProviders(in.req, openai_reply, local.value, in.models)),
             response |-> Some(BuildResponse(in.req, openai_reply, local.value,
                                             in.models, 0, 0))]

ChainInit == fnIn \in {Some(in) : in \in ChainInputs} /\ fnOut = None

ApplyChain ==
    /\ fnOut = None
    /\ fnOut' = Some(GetCompletionOnMiss(Get(fnIn)))
    /\ UNCHANGED <<now, fnIn, rlVars, keyVars, tokVars, svcVars>>

(***************************************************************************)
(* _generate_cache_key as a function of two requests                        *)
(***************************************************************************)
\* the text f":{language}:{max_tokens}:{temperature}" of one of the requests,
\* which a caller can also send inside code or context
JoinedTail == <<"python", ":", "5", ":", "0.7">>

\* requests whose code and context hold the separator, and whose context is
\* absent, empty or present
FingerprintRequests ==
    [code : {<<"a">>, <<"a", ":", "b">>, <<"a", ":">> \o JoinedTail},
     language : {"python", "go"},
     context : {None, Some(<<>>), Some(<<"b">>), Some(JoinedTail)},
     max_tokens : {5, 50},
     temperature : {"0.7", "0.2"},
     user_id : {None}]

FingerprintInit ==
    /\ fnIn \in {Some(<<r1, r2>>) : r1 \in FingerprintRequests, r2 \in FingerprintRequests}
    /\ fnOut = None

\* _generate_cache_key is applied to both requests: the strings hashed and
\* the keys
ApplyFingerprint ==
    /\ fnOut = None
    /\ fnOut' = Some([i \in 1..2 |->
                         [content |-> CacheKeyContent(Get(fnIn)[i]),
                          key |-> Md5(CacheKeyContent(Get(fnIn)[i]))]])
    /\ UNCHANGED <<now, fnIn, rlVars, keyVars, tokVars, svcVars>>

\* no function is under study
FnIdle == fnIn = None /\ fnOut = None

RateLimitIdle ==
    /\ requests = EmptyMap
    /\ limitOf = [f \in Operations |-> 1]
    /\ windowOf = [f \in Operations |-> 1]
    /\ calls = [p \in Clients \X Operations |-> <<>>]
    /\ workers = [w \in Workers |-> IdleWorker]

(***************************************************************************)
(* Specifications                                                           *)
(***************************************************************************)
InitRateLimit ==
    /\ now = 0
    /\ RateLimitInit
    /\ ApiKeyIdle
    /\ TokenIdle
    /\ ServiceIdle
    /\ FnIdle

SpecRateLimit == InitRateLimit /\ [][RateLimitNext]_vars

InitParallel ==
    /\ now = 0
    /\ ParallelInit
    /\ ApiKeyIdle
    /\ TokenIdle
    /\ ServiceIdle
    /\ FnIdle

SpecParallel == InitParallel /\ [][ParallelNext]_vars

InitApiKey ==
    /\ now = 0
    /\ RateLimitIdle
    /\ ApiKeyIdle
    /\ TokenIdle
    /\ ServiceIdle
    /\ FnIdle

SpecApiKey == InitApiKey /\ [][ApiKeyNext]_vars

InitToken ==
    /\ now = 0
    /\ RateLimitIdle
    /\ ApiKeyIdle
    /\ TokenIdle
    /\ ServiceIdle
    /\ FnIdle

SpecToken == InitToken /\ [][TokenNext]_vars

InitChain ==
    /\ now = 0
    /\ RateLimitIdle
    /\ ApiKeyIdle
    /\ TokenIdle
    /\ ServiceIdle
    /\ ChainInit

SpecChain == InitChain /\ [][ApplyChain]_vars

InitFingerprint ==
    /\ now = 0
    /\ RateLimitIdle
    /\ ApiKeyIdle
    /\ TokenIdle
    /\ ServiceIdle
    /\ FingerprintInit

SpecFingerprint == InitFingerprint /\ [][ApplyFingerprint]_vars

Init ==
    /\ now = 0
    /\ RateLimitIdle
    /\ ApiKeyIdle
    /\ TokenIdle
    /\ ServiceInit
    /\ FnIdle

Spec == Init /\ [][Next]_vars

SpecCacheLife == Init /\ [][CacheLifeNext]_vars

\* a service started without OPENAI_API_KEY: no client is set
InitNoTable == Init /\ ~openai_client

SpecNoTable == InitNoTable /\ [][NoTableNext]_vars

SpecCancel == Init /\ [][CancelNext]_vars

InitEndpoint ==
    /\ now = 0
    /\ EndpointRateInit
    /\ ApiKeyIdle
    /\ TokenIdle
    /\ ServiceInit
    /\ FnIdle

SpecEndpoint == InitEndpoint /\ [][EndpointNext]_vars

(***************************************************************************)
(* Completion cache: claims C1, C2, C3 (checked under Spec)                 *)
(***************************************************************************)

\* C1: a get_completion(r) that starts right after a get_completion(r) on the
\* same service returned, nothing else having happened in between, returns a
\* response equal to the first one in every field, processing_time included.
Thm_C1 ==
    \A t \in Tasks :
        (pc[t] = "done" /\ prior[t] # None) =>
            /\ Get(result[t]).suggestions = Get(prior[t]).suggestions
            /\ Get(result[t]).confidence_scores = Get(prior[t]).confidence_scores
            /\ Get(result[t]).reasoning = Get(prior[t]).reasoning
            /\ Get(result[t]).model_used = Get(prior[t]).model_used
            /\ Get(result[t]).processing_time = Get(prior[t]).processing_time

\* a second call in sequence has returned, at a later time than the first
\* call began, for a request that differs from the first in user_id only,
\* and its response carries the first call's processing_time
Wit_C1 ==
    \E t \in Tasks, u \in Tasks :
        /\ t # u
        /\ pc[t] = "done" /\ prior[t] # None
        /\ pc[u] = "done" /\ lastReturn = Some(t)
        /\ request[t] # request[u] /\ KeyOf(t) = KeyOf(u)
        /\ Get(result[t]).processing_time = 1
        /\ Len(Get(result[t]).suggestions) = TOP_N

\* C2: for every fingerprint, at most one run of the provider chain is ever
\* started: a call that misses while another call of the same fingerprint is
\* in progress does not start a run of its own.
Orig_C2 == \A k \in CacheKeys : chainRuns[k] <= 1

\* C3: the callers of one fingerprint that have their responses all have the
\* same response, and once none of them is still in progress that response
\* is the one the cache holds for the fingerprint.
Orig_C3 ==
    \A t \in Tasks, u \in Tasks :
        (pc[t] = "done" /\ pc[u] = "done" /\ KeyOf(t) = KeyOf(u)) =>
            /\ result[t] = result[u]
            /\ CacheLookup(cache, KeyOf(t)) = result[t]

(***************************************************************************)
(* Rate limiter: claims C4, C5, C6 (checked under SpecRateLimit)            *)
(***************************************************************************)
Pairs == Clients \X Operations

\* the earlier admitted calls of pair p that lie inside the trailing window
\* of its i-th call
AdmittedBefore(p, i) ==
    {j \in 1..(i - 1) : /\ calls[p][j].ok
                        /\ calls[p][i].at - calls[p][j].at < windowOf[p[2]]}

\* the admitted calls of pair p inside the window of length windowOf that ends at T
AdmittedInWindow(p, T) ==
    {j \in 1..Len(calls[p]) : /\ calls[p][j].ok
                              /\ calls[p][j].at <= T
                              /\ T - calls[p][j].at < windowOf[p[2]]}

\* C4: is_allowed returns true exactly when fewer than limit previously
\* admitted calls of the key lie inside the trailing window; hence no window
\* holds more than limit admitted calls of one key, and a call made once the
\* window has elapsed since every admitted call is admitted again.
Thm_C4 ==
    \A p \in Pairs :
        /\ \A i \in 1..Len(calls[p]) :
               calls[p][i].ok <=> (Cardinality(AdmittedBefore(p, i)) < limitOf[p[2]])
        /\ \A T \in 0..MaxTime :
               Cardinality(AdmittedInWindow(p, T)) <= limitOf[p[2]]
        /\ \A i \in 1..Len(calls[p]) :
               (\A j \in 1..(i - 1) :
                    calls[p][j].ok => calls[p][i].at - calls[p][j].at >= windowOf[p[2]])
               => calls[p][i].ok

\* limit = 2: true, true, false in one instant, then true once the window elapsed
Wit_C4 ==
    \E p \in Pairs :
        /\ limitOf[p[2]] = 2
        /\ Len(calls[p]) = 4
        /\ calls[p][1].ok /\ calls[p][2].ok /\ ~calls[p][3].ok /\ calls[p][4].ok
        /\ calls[p][3].at = calls[p][1].at
        /\ calls[p][4].at >= calls[p][1].at + windowOf[p[2]]

\* the step is a call of pair p
CalledIn(p) == Len(calls'[p]) = Len(calls[p]) + 1

\* C5: a rejected call records no timestamp: after it the key's window holds
\* exactly the unexpired timestamps it held before.
Thm_C5 ==
    [][\A p \in Pairs :
           (CalledIn(p) /\ ~calls'[p][Len(calls'[p])].ok) =>
               WindowOfKey(requests', RateKey(p[1], p[2])) =
                   SelectSeq(WindowOfKey(requests, RateKey(p[1], p[2])),
                             LAMBDA r : now - r < windowOf[p[2]])]_vars

\* limit = 1: admitted at t, rejected later inside the window, and admitted
\* at t + window all the same
Wit_C5 ==
    \E p \in Pairs :
        /\ limitOf[p[2]] = 1
        /\ Len(calls[p]) = 3
        /\ calls[p][1].ok /\ ~calls[p][2].ok /\ calls[p][3].ok
        /\ calls[p][2].at > calls[p][1].at
        /\ calls[p][3].at = calls[p][1].at + windowOf[p[2]]
        /\ Len(WindowOfKey(requests, RateKey(p[1], p[2]))) = 1

\* C6: a call on one (client, operation) key leaves the window of every other
\* key unchanged.
Thm_C6 ==
    [][\A p \in Pairs :
           ~CalledIn(p) =>
               WindowOfKey(requests', RateKey(p[1], p[2])) =
                   WindowOfKey(requests, RateKey(p[1], p[2]))]_vars

\* one key's budget is exhausted (its last call was rejected) while the same
\* client's other operation and another client's same operation are admitted
\* afterwards
Wit_C6 ==
    \E c1 \in Clients, c2 \in Clients, f1 \in Operations, f2 \in Operations :
        /\ c1 # c2 /\ f1 # f2
        /\ Len(calls[<<c1, f1>>]) = 2
        /\ ~calls[<<c1, f1>>][2].ok
        /\ Len(calls[<<c1, f2>>]) = 1 /\ calls[<<c1, f2>>][1].ok
        /\ calls[<<c1, f2>>][1].at >= calls[<<c1, f1>>][2].at
        /\ Len(calls[<<c2, f1>>]) = 1 /\ calls[<<c2, f1>>][1].ok
        /\ calls[<<c2, f1>>][1].at >= calls[<<c1, f1>>][2].at

(***************************************************************************)
(* API keys: claims C7, C8 (checked under SpecApiKey)                       *)
(***************************************************************************)
\* C7: for every identity, verifying the key generate_api_key issued for it
\* succeeds while the key is younger than 24 hours, returning the identity
\* and the issuance timestamp, and fails once it is older than 24 hours.
Orig_C7 ==
    (keyResult # None /\ Get(keyOrigin).tamper = "none") =>
        LET r == Get(keyResult)
            o == Get(keyOrigin)
        IN /\ (r.at - o.at < API_KEY_LIFETIME) =>
                  /\ r.out.ok
                  /\ r.out.user_id = o.user_id
                  /\ IsInt(r.out.timestamp)
                  /\ ParseInt(r.out.timestamp) = o.at
           /\ (r.at - o.at > API_KEY_LIFETIME) => ~r.out.ok

\* the same round trip, for the identities that hold no '.'
DotFree_C7 ==
    (/\ keyResult # None
     /\ Get(keyOrigin).tamper = "none"
     /\ \A i \in 1..Len(Get(keyOrigin).user_id) : Get(keyOrigin).user_id[i] # ".") =>
        LET r == Get(keyResult)
            o == Get(keyOrigin)
        IN /\ (r.at - o.at <= API_KEY_LIFETIME) =>
                  /\ r.out.ok
                  /\ r.out.user_id = o.user_id
                  /\ IsInt(r.out.timestamp)
                  /\ ParseInt(r.out.timestamp) = o.at
           /\ (r.at - o.at > API_KEY_LIFETIME) => ~r.out.ok

Orig_C9 ==
    (token # None /\ ~Get(tokOrigin).forged) =>
        LET o == Get(tokOrigin)
            exp == Get(token).payload["exp"]
        IN /\ o.delta # None => exp = o.at + Get(o.delta)
           /\ o.delta = None => exp = o.at + DefaultLifetime

\* the same, for the explicit lifetimes other than zero
NonZero_C9 ==
    (token # None /\ ~Get(tokOrigin).forged) =>
        LET o == Get(tokOrigin)
            exp == Get(token).payload["exp"]
        IN /\ (o.delta # None /\ Get(o.delta) # 0) => exp = o.at + Get(o.delta)
           /\ o.delta = None => exp = o.at + DefaultLifetime

\* verify_token of an issued token returns every entry of data up to the
\* token's expiry, and fails after it and for a token signed with another secret
RoundTrip_C10 ==
    tokResult # None =>
        LET r == Get(tokResult)
            o == Get(tokOrigin)
        IN /\ r.case = "Valid" =>
                  /\ r.out.ok
                  /\ \A k \in DOMAIN o.data :
                         k \in DOMAIN r.out.payload /\ r.out.payload[k] = o.data[k]
           /\ r.case \in {"Expired", "InvalidSignature"} => ~r.out.ok

RemoteYields(in) ==
    in.client /\ ~in.remote.raised /\ NonBlank(in.remote.texts) # <<>>

\* the local provider produced a candidate
LocalYields(in) ==
    in.req.language \in in.models /\ ~in.local.raised /\ NonBlank(in.local.texts) # <<>>

Ran(name) ==
    LET invoked == Get(Get(fnOut).run).invoked
    IN \E i \in 1..Len(invoked) : invoked[i] = name

\* C11: on a cache miss the rule-based provider is invoked exactly when the
\* remote and the local provider together produced no candidate, whether
\* they were unavailable, failed or answered with nothing.
Thm_C11 ==
    fnOut # None =>
        /\ ~Get(fnOut).raised
        /\ Ran("rule-based") <=> (~RemoteYields(Get(fnIn)) /\ ~LocalYields(Get(fnIn)))

\* the remote call failed, the local model ran and decoded only blanks, and
\* the rule-based provider was invoked after both
Wit_C11 ==
    /\ fnOut # None
    /\ Get(fnIn).client /\ Get(fnIn).remote.raised
    /\ Get(fnIn).req.language \in Get(fnIn).models
    /\ ~Get(fnIn).local.raised
    /\ Get(Get(fnOut).run).invoked = <<"openai", "custom", "rule-based">>

\* C12: model_used names the first provider, in the order remote, local,
\* rule-based, that produced a candidate: 'openai' whenever the remote one
\* did, 'custom' only when the remote one did not and the local one did,
\* 'rule-based' only when neither did.
Orig_C12 ==
    (fnOut # None /\ ~Get(fnOut).raised) =>
        LET model_used == Get(Get(fnOut).response).model_used
            in == Get(fnIn)
        IN /\ RemoteYields(in) => model_used = "openai"
           /\ model_used = "openai" => RemoteYields(in)
           /\ model_used = "custom" => (~RemoteYields(in) /\ LocalYields(in))
           /\ model_used = "rule-based" => (~RemoteYields(in) /\ ~LocalYields(in))

\* C13: without a client and without a model for the language the response
\* holds the first 5 patterns of the language's table, in table order, that
\* do not occur in the last line in any case; all confidences are 0.5 and
\* model_used is 'rule-based'.
Thm_C13 ==
    (/\ fnOut # None
     /\ ~Get(fnIn).client
     /\ Get(fnIn).req.language \notin Get(fnIn).models) =>
        LET in == Get(fnIn)
            response == Get(Get(fnOut).response)
            table == LanguagePatterns(in.req.language)
            last_line == LastLine(in.req.code)
            absent == SelectSeq(table, LAMBDA pattern : ~OccursIn(pattern, last_line))
            n == Len(response.suggestions)
        IN /\ ~Get(fnOut).raised
           /\ n <= 5 /\ n <= Len(absent)
           /\ (n < 5 => n = Len(absent))
           /\ response.suggestions = SubSeq(absent, 1, n)
           /\ \A i \in 1..n, j \in 1..Len(last_line) :
                  Lower(response.suggestions[i]) # Lower(last_line[j])
           /\ response.confidence_scores = [i \in 1..n |-> FALLBACK_CONFIDENCE]
           /\ response.model_used = "rule-based"

\* no client, no model: the last line holds "DEF ", "async def " and "Class ",
\* and the response begins after them, with "import "
Wit_C13 ==
    /\ fnOut # None
    /\ ~Get(fnIn).client /\ Get(fnIn).models = {}
    /\ \E i \in 1..Len(Get(fnIn).req.code) : Get(fnIn).req.code[i] = "DEF "
    /\ Get(Get(fnOut).response).suggestions =
           <<"import ", "from ", "if __name__ == '__main__':", "try:", "except ">>

\* C14: a response holds at most 5 candidates and as many confidences; the
\* confidences never increase along the list; the candidates kept are the
\* first of the providers' candidates in their order, and no candidate that
\* was dropped has a higher confidence than one that was kept.
Thm_C14 ==
    (fnOut # None /\ ~Get(fnOut).raised) =>
        LET response == Get(Get(fnOut).response)
            run == Get(Get(fnOut).run)
            n == Len(response.suggestions)
        IN /\ n <= 5
           /\ Len(response.confidence_scores) = n
           /\ \A i \in 1..n, j \in 1..n :
                  i < j => response.confidence_scores[i] >= response.confidence_scores[j]
           /\ n <= Len(run.suggestions)
           /\ response.suggestions = SubSeq(run.suggestions, 1, n)
           /\ response.confidence_scores = SubSeq(run.confidence_scores, 1, n)
           /\ \A i \in 1..n, j \in (n + 1)..Len(run.suggestions) :
                  run.confidence_scores[j] <= response.confidence_scores[i]

\* three remote and three local candidates: five are kept, remote ones
\* first, and the last local one is dropped
Wit_C14 ==
    /\ fnOut # None /\ ~Get(fnOut).raised
    /\ Len(Get(Get(fnOut).run).suggestions) = 6
    /\ Get(Get(fnOut).response).confidence_scores = <<9, 9, 9, 7, 7>>
    /\ Get(Get(fnOut).response).suggestions =
           <<"choice 1", "choice 2", "choice 3", "sample 1", "sample 2">>

\* C20: get_completion never raises what a provider raised: a provider that
\* failed counts as one that answered with nothing, and the response is the
\* one the other providers give, the rule-based one when they give nothing.
Thm_C20 ==
    fnOut # None =>
        LET in == Get(fnIn)
            quiet == [raised |-> FALSE, texts |-> <<>>]
            calm == [in EXCEPT !.remote = IF in.remote.raised THEN quiet ELSE @,
                               !.local = IF in.local.raised THEN quiet ELSE @]
        IN /\ ~Get(fnOut).raised
           /\ Get(fnOut).response # None
           /\ calm.remote.raised = FALSE /\ calm.local.raised = FALSE
           /\ Get(fnOut).response =
                  Some(BuildResponse(calm.req,
                                     IF calm.client THEN Some(NonBlank(calm.remote.texts))
                                                    ELSE None,
                                     NonBlank(calm.local.texts), calm.models, 0, 0))
           /\ (in.remote.raised /\ (in.local.raised \/ in.req.language \notin in.models))
                  => Get(Get(fnOut).response).model_used = "rule-based"

\* both providers were called and both failed; the response is rule-based
Wit_C20 ==
    /\ fnOut # None
    /\ Get(fnIn).client /\ Get(fnIn).remote.raised
    /\ Get(fnIn).req.language \in Get(fnIn).models /\ Get(fnIn).local.raised
    /\ ~Get(fnOut).raised
    /\ Get(Get(fnOut).response).model_used = "rule-based"
    /\ Len(Get(Get(fnOut).response).suggestions) = 5

(***************************************************************************)
(* Cache lifetime: claims C15, C16, C17 (checked under SpecCacheLife)       *)
(***************************************************************************)
\* C15: a get_completion call made when the entry of its fingerprint is older
\* than CACHE_TTL does not return that entry: it runs the provider chain.
Orig_C15 ==
    [][\A t \in Tasks, r \in Requests :
          (GetCompletion(t, r) /\ GenerateCacheKey(r) \in expired) =>
              /\ chainRuns'[GenerateCacheKey(r)] = chainRuns[GenerateCacheKey(r)] + 1
              /\ GenerateCacheKey(r) \notin expired']_vars

\* C16: once results were stored for CacheMaxSize + 1 distinct fingerprints,
\* exactly the earliest-stored entry is gone and the others are held.
Orig_C16 ==
    Len(inserted) = CacheMaxSize + 1 =>
        DOMAIN cache = {inserted[i] : i \in 2..Len(inserted)}

\* C17: the cache never holds more than CacheMaxSize entries.
Orig_C17 == Cardinality(DOMAIN cache) <= CacheMaxSize

(***************************************************************************)
(* Fingerprint: claims C18 (under SpecCacheLife), C19 (under SpecFingerprint) *)
(***************************************************************************)
\* the fields of a request other than the caller's identity
Relevant(r) == [code |-> r.code, language |-> r.language, max_tokens |-> r.max_tokens,
                temperature |-> r.temperature, context |-> r.context]

\* C18: requests equal in code, language, max_tokens, temperature and context
\* have the same cache key whoever sends them, and a call by one caller is
\* served the entry that the call of another caller, equal in those fields,
\* has stored.
Thm_C18 ==
    [][\A t \in Tasks, u \in Tasks, r \in Requests :
          (/\ u # t /\ pc[u] = "done"
           /\ Relevant(Get(request[u])) = Relevant(r)
           /\ Get(request[u]).user_id # r.user_id
           /\ CacheLookup(cache, KeyOf(u)) = result[u]
           /\ GetCompletion(t, r)) =>
              /\ GenerateCacheKey(r) = KeyOf(u)
              /\ pc'[t] = "done"
              /\ result'[t] = result[u]
              /\ chainRuns' = chainRuns
              /\ cache' = cache]_vars

\* bob's call has returned what alice's call stored, and the provider chain
\* ran once for their fingerprint
Wit_C18 ==
    \E t \in Tasks, u \in Tasks :
        /\ pc[t] = "done" /\ pc[u] = "done"
        /\ Get(request[u]).user_id = Some("alice")
        /\ Get(request[t]).user_id = Some("bob")
        /\ lastReturn = Some(t)
        /\ result[t] = result[u]
        /\ chainRuns[KeyOf(t)] = 1
        /\ Get(result[t]).model_used = "custom"

\* C19: two requests that differ in code, language, max_tokens, temperature
\* or context never give the same hashed string, also when a field holds the
\* separator and when one context is absent.
Orig_C19 ==
    (fnOut # None /\ Relevant(Get(fnIn)[1]) # Relevant(Get(fnIn)[2])) =>
        Get(fnOut)[1].content # Get(fnOut)[2].content

\* the same, for requests whose context is absent or not empty: what is left
\* is the separator inside code and context
PresentContext_C19 ==
    (/\ fnOut # None
     /\ Get(fnIn)[1].context # Some(<<>>) /\ Get(fnIn)[2].context # Some(<<>>)
     /\ Relevant(Get(fnIn)[1]) # Relevant(Get(fnIn)[2])) =>
        Get(fnOut)[1].content # Get(fnOut)[2].content

\* the same, for requests whose code and context hold no separator and whose
\* context is absent or not empty
NoSeparator_C19 ==
    LET plain(r) == /\ \A i \in 1..Len(r.code) : r.code[i] # ":"
                    /\ r.context # Some(<<>>)
                    /\ r.context # None =>
                           \A i \in 1..Len(Get(r.context)) : Get(r.context)[i] # ":"
    IN (/\ fnOut # None
        /\ plain(Get(fnIn)[1]) /\ plain(Get(fnIn)[2])
        /\ Relevant(Get(fnIn)[1]) # Relevant(Get(fnIn)[2])) =>
           Get(fnOut)[1].content # Get(fnOut)[2].content

(***************************************************************************)
(* Rate limiter, window boundary: claim C25 (checked under SpecRateLimit)   *)
(***************************************************************************)
\* the earlier admitted calls of pair p whose age at its i-th call is at most
\* the window: those of age exactly the window included
AdmittedUpToBoundary(p, i) ==
    {j \in 1..(i - 1) : /\ calls[p][j].ok
                        /\ calls[p][i].at - calls[p][j].at <= windowOf[p[2]]}

\* C25: an admitted call whose age is exactly the window still counts
\* against the limit: a call is rejected while limit admitted calls of its
\* key are of age at most the window, so a key with limit admitted calls at
\* time t is rejected at t + window.
Orig_C25 ==
    \A p \in Pairs :
        \A i \in 1..Len(calls[p]) :
            Cardinality(AdmittedUpToBoundary(p, i)) >= limitOf[p[2]] => ~calls[p][i].ok

(***************************************************************************)
(* Provider availability and order: claim C27 (checked under SpecChain)     *)
(***************************************************************************)
\* C27: on a cache miss the remote provider is invoked exactly when a client
\* is set, then the local provider exactly when a model is loaded for the
\* language, also after the remote one returned candidates; a provider that
\* is skipped raises nothing and none of the candidates is its own.
Thm_C27 ==
    fnOut # None =>
        LET in == Get(fnIn)
            run == Get(Get(fnOut).run)
            Pos(name) == {i \in 1..Len(run.invoked) : run.invoked[i] = name}
            Texts(outcome) == {NonBlank(outcome.texts)[i] :
                                   i \in 1..Len(NonBlank(outcome.texts))}
        IN /\ ~Get(fnOut).raised
           /\ Cardinality(Pos("openai")) = (IF in.client THEN 1 ELSE 0)
           /\ Cardinality(Pos("custom")) =
                  (IF in.req.language \in in.models THEN 1 ELSE 0)
           /\ \A i \in Pos("openai"), j \in Pos("custom") : i < j
           /\ ~in.client =>
                  \A i \in 1..Len(run.suggestions) :
                      /\ run.suggestions[i] \notin Texts(in.remote)
                      /\ run.confidence_scores[i] # OPENAI_CONFIDENCE
           /\ in.req.language \notin in.models =>
                  \A i \in 1..Len(run.suggestions) :
                      /\ run.suggestions[i] \notin Texts(in.local)
                      /\ run.confidence_scores[i] # CUSTOM_CONFIDENCE

\* no client although the remote model would have answered: only the local
\* model, loaded for the language, was invoked, and every candidate is its own
Wit_C27 ==
    /\ fnOut # None
    /\ ~Get(fnIn).client
    /\ NonBlank(Get(fnIn).remote.texts) # <<>>
    /\ LocalYields(Get(fnIn))
    /\ Get(Get(fnOut).run).invoked = <<"custom">>
    /\ Get(Get(fnOut).run).confidence_scores = <<CUSTOM_CONFIDENCE, CUSTOM_CONFIDENCE,
                                                 CUSTOM_CONFIDENCE>>

(***************************************************************************)
(* API keys bind the identity: claim C30 (checked under SpecApiKey)         *)
(***************************************************************************)
\* C30: verify_api_key succeeds only for a key of three parts whose third
\* part is the HMAC, under the service secret, of its first and second part
\* joined by ':', and the identity it then returns is the one the key was
\* issued for: no key signed with another secret, given another timestamp or
\* re-split at another '.' or ':' is accepted.
Thm_C30 ==
    keyResult # None =>
        LET r == Get(keyResult)
            o == Get(keyOrigin)
            parts == Split(Get(api_key), ".")
        IN /\ r.out.ok =>
                  /\ Len(parts) = 3
                  /\ parts[3] = <<Hmac(SECRET_KEY, parts[1] \o <<":">> \o parts[2])>>
                  /\ r.out.user_id = parts[1]
                  /\ r.out.user_id = o.user_id
                  /\ r.out.timestamp = Str(o.at)
           /\ o.tamper # "none" => ~r.out.ok

\* the key issued for "a:" was re-split into identity "a" and timestamp ":0":
\* its three parts carry the signed message and a valid signature, and it is
\* rejected all the same, as the timestamp is no integer
Wit_C30 ==
    /\ keyResult # None
    /\ Get(keyOrigin).tamper = "resplit"
    /\ Get(keyOrigin).user_id = <<"a", ":">>
    /\ LET parts == Split(Get(api_key), ".") IN
       /\ Len(parts) = 3
       /\ parts[1] = <<"a">>
       /\ parts[3] = <<Hmac(SECRET_KEY, parts[1] \o <<":">> \o parts[2])>>
    /\ ~Get(keyResult).out.ok
    /\ Get(keyResult).out.logged = "invalid literal for int()"

(***************************************************************************)
(* Cache hits and degraded results: claims C26, C28 (under SpecCacheLife)   *)
(***************************************************************************)
\* C26: a get_completion whose fingerprint is in the cache starts no run of
\* the provider chain and awaits no provider, leaves the cache as it is, the
\* entry it hits included, and returns that entry with every field as stored.
Thm_C26 ==
    [][\A t \in Tasks, r \in Requests :
          (GenerateCacheKey(r) \in DOMAIN cache /\ GetCompletion(t, r)) =>
              /\ pc'[t] = "done"
              /\ result'[t] = Some(cache[GenerateCacheKey(r)])
              /\ chainRuns' = chainRuns
              /\ cache' = cache
              /\ inserted' = inserted]_vars

\* a second call of the javascript request has just returned the entry the
\* first one stored from the remote model's choices; the chain ran once
Wit_C26 ==
    \E t \in Tasks, u \in Tasks :
        /\ t # u
        /\ pc[t] = "done" /\ pc[u] = "done"
        /\ request[t] = request[u]
        /\ Get(request[t]).language = "javascript"
        /\ lastReturn = Some(t)
        /\ chainRuns[KeyOf(t)] = 1
        /\ result[t] = CacheLookup(cache, KeyOf(t))
        /\ Get(result[t]).model_used = "openai"
        /\ Get(result[t]).confidence_scores =
               <<OPENAI_CONFIDENCE, OPENAI_CONFIDENCE, OPENAI_CONFIDENCE>>

\* no candidate of the entry came from the remote model
Degraded(entry) ==
    \A i \in 1..Len(entry.confidence_scores) :
        entry.confidence_scores[i] # OPENAI_CONFIDENCE

\* C28: when the remote call of a miss fails, the response built from the
\* other providers is stored under the fingerprint; a later call that finds
\* such an entry returns it and starts no run of the chain, so the provider
\* that failed is not invoked again.
Thm_C28 ==
    [][\A t \in Tasks :
          /\ OpenAIReturns(t, <<>>) =>
                 /\ KeyOf(t) \in DOMAIN cache'
                 /\ result'[t] = Some(cache'[KeyOf(t)])
                 /\ Degraded(cache'[KeyOf(t)])
                 /\ cache'[KeyOf(t)].model_used \in {"custom", "rule-based"}
          /\ \A r \in Requests :
                 (/\ GenerateCacheKey(r) \in DOMAIN cache
                  /\ Degraded(cache[GenerateCacheKey(r)])
                  /\ GetCompletion(t, r)) =>
                     /\ result'[t] = Some(cache[GenerateCacheKey(r)])
                     /\ pc'[t] = "done"
                     /\ chainRuns' = chainRuns]_vars

\* with a client set, the one run of the chain for the fingerprint met a
\* failed remote call and stored the rule-based result, which the next call
\* has just returned
Wit_C28 ==
    \E t \in Tasks, u \in Tasks :
        /\ t # u
        /\ openai_client
        /\ pc[t] = "done" /\ pc[u] = "done"
        /\ KeyOf(t) = KeyOf(u)
        /\ lastReturn = Some(t)
        /\ chainRuns[KeyOf(t)] = 1
        /\ result[t] = result[u]
        /\ result[t] = CacheLookup(cache, KeyOf(t))
        /\ Get(result[t]).model_used = "rule-based"

(***************************************************************************)
(* Languages without a rule table: claim C29 (checked under SpecNoTable)    *)
(***************************************************************************)
\* C29: without a client, a call for a request in cpp, csharp, go or rust
\* (no local model exists for them) returns no suggestion and no confidence,
\* the reasoning "No suggestions available" and model_used "rule-based", and
\* the cache holds that response under the request's fingerprint.
Thm_C29 ==
    \A t \in Tasks :
        (/\ pc[t] = "done"
         /\ ~openai_client
         /\ Get(request[t]).language \in {"cpp", "csharp", "go", "rust"}) =>
            /\ Get(request[t]).language \in AcceptedLanguages
            /\ Get(request[t]).language \notin custom_models
            /\ Get(result[t]).suggestions = <<>>
            /\ Get(result[t]).confidence_scores = <<>>
            /\ Get(result[t]).reasoning = <<"No suggestions available">>
            /\ Get(result[t]).model_used = "rule-based"
            /\ CacheLookup(cache, KeyOf(t)) = result[t]

\* without a client and with the python model loaded, calls in all four
\* languages have stored their empty responses, the last one for rust
Wit_C29 ==
    /\ ~openai_client
    /\ custom_models = {"python"}
    /\ {GenerateCacheKey(r) : r \in NoTableRequests} = DOMAIN cache
    /\ Cardinality(DOMAIN cache) = 4
    /\ \E t \in Tasks :
           /\ lastReturn = Some(t)
           /\ Get(request[t]).language = "rust"
           /\ chainRuns[KeyOf(t)] = 1
           /\ Get(result[t]).suggestions = <<>>

(***************************************************************************)
(* Cancellation: claim C24 (checked under SpecCancel)                       *)
(***************************************************************************)
\* C24: a call that is cancelled while the remote model's reply is awaited
\* stores nothing: neither the step in which it began and missed nor the
\* step of its cancellation changes the cache, and it ends without a result.
Thm_C24 ==
    [][\A t \in Tasks :
          /\ (\E r \in Requests : GetCompletion(t, r)) /\ pc'[t] = "awaiting_openai"
                 => cache' = cache
          /\ Cancel(t) =>
                 /\ cache' = cache
                 /\ inserted' = inserted
                 /\ pc'[t] = "cancelled"
                 /\ result'[t] = None]_vars

\* a call was cancelled after it started the chain for its fingerprint, for
\* which the cache holds nothing, while the cache holds what the call of
\* another task stored for another fingerprint
Wit_C24 ==
    \E t \in Tasks, u \in Tasks :
        /\ pc[t] = "cancelled"
        /\ chainRuns[KeyOf(t)] = 1
        /\ KeyOf(t) \notin DOMAIN cache
        /\ pc[u] = "done"
        /\ KeyOf(u) # KeyOf(t)
        /\ CacheLookup(cache, KeyOf(u)) = result[u]

(***************************************************************************)
(* is_allowed under parallel workers: claim C22 (checked under SpecParallel)*)
(***************************************************************************)
\* no window holds more than limit admitted calls of the key
NoExcess_C22 ==
    \A T \in 0..MaxTime :
        Cardinality(AdmittedInWindow(ParallelPair, T)) <= limitOf[ParallelPair[2]]

\* the window of the key holds a timestamp for every admitted call that has
\* not expired
NoLoss_C22 ==
    LET window == windowOf[ParallelPair[2]]
        times == WindowOfKey(requests, ParallelKey)
        admitted == {j \in 1..Len(calls[ParallelPair]) :
                         /\ calls[ParallelPair][j].ok
                         /\ now - calls[ParallelPair][j].at < window}
        held == {i \in 1..Len(times) : now - times[i] < window}
    IN Cardinality(admitted) <= Cardinality(held)

\* C22: however the statements of concurrent is_allowed calls on one key
\* interleave, the calls admitted within one window never exceed limit and
\* the timestamp of no admitted call is lost from the key's window.
Orig_C22 == NoExcess_C22 /\ NoLoss_C22

(***************************************************************************)
(* POST /complete: claims C21, C23 (checked under SpecEndpoint)             *)
(***************************************************************************)
\* is_allowed admits a call of client c to complete_code made now
AdmitsNow(c) ==
    IsAllowed(requests, RateKey(c, "complete_code"), limitOf["complete_code"],
              windowOf["complete_code"], now).ok

\* C21: a /complete request that is admitted after another request with the
\* same fingerprint has got its response finds that response in the cache:
\* it returns it and starts no run of the provider chain.
Orig_C21 ==
    [][\A t \in Tasks, u \in Tasks, c \in Clients, sub \in Subjects,
          body \in EndpointBodies :
          (/\ u # t
           /\ pc[u] = "done"
           /\ KeyOf(u) = GenerateCacheKey(ServiceRequest(body, sub))
           /\ AdmitsNow(c)
           /\ CompleteCode(t, Some(c), sub, body)) =>
              /\ pc'[t] = "done"
              /\ result'[t] = result[u]
              /\ chainRuns' = chainRuns]_vars

\* C23: a /complete request for whose key is_allowed returns false ends with
\* the 429 and nothing else: no run of the provider chain is started, no
\* response is returned from a cache, and no cache, of the request's own
\* service instance or of any other, is written.
Thm_C23 ==
    [][\A t \in Tasks, c \in Clients, sub \in Subjects, body \in EndpointBodies :
          (~AdmitsNow(c) /\ CompleteCode(t, Some(c), sub, body)) =>
              /\ pc'[t] = "rejected"
              /\ result'[t] = None
              /\ chainRuns' = chainRuns
              /\ cache' = cache
              /\ instance'[t] = EmptyMap
              /\ \A u \in Tasks \ {t} :
                     instance'[u] = instance[u] /\ pc'[u] = pc[u]]_vars

\* a client's first request was answered and stored in its instance; the
\* same client's next request, for the same fingerprint, was rejected, and
\* the chain has run once
Wit_C23 ==
    \E t \in Tasks, u \in Tasks, c \in Clients :
        /\ t # u
        /\ pc[t] = "rejected" /\ pc[u] = "done"
        /\ Len(calls[<<c, "complete_code">>]) = 2
        /\ calls[<<c, "complete_code">>][1].ok
        /\ ~calls[<<c, "complete_code">>][2].ok
        /\ KeyOf(t) = KeyOf(u)
        /\ chainRuns[KeyOf(t)] = 1
        /\ instance[t] = EmptyMap
        /\ CacheLookup(instance[u], KeyOf(u)) = result[u]

====
